---- MODULE Spec2Model ----
(***************************************************************************)
(* Model of the comment thread of pwntrends-frontend:                      *)
(*   - buildTree and sameComments (src/components/CommentThread.tsx),      *)
(*   - the CommentThread component: prop sync, refreshLocal, polling,      *)
(*   - PostCard.loadComments, which owns the `comments` prop and mounts    *)
(*     or unmounts the thread (src/components/PostCard.tsx).               *)
(***************************************************************************)
EXTENDS Integers, Sequences, FiniteSets, Bags, TLC

VARIABLES
    \* buildTree and sameComments applied to given arguments
    comments,         \* buildTree: the argument `comments`
    tree,             \* buildTree: the returned value, NoTree before the call
    gateA,            \* sameComments: the argument `a`
    gateB,            \* sameComments: the argument `b`
    gateResult,       \* sameComments: <<returned value>>, <<>> before the call
    call,             \* buildTree run on objects: how it ended, its passes, its input afterwards
    itemProps,        \* the props every rendered CommentItem received
    \* the comments resource of the REST API and the document
    server,           \* the post's comments as GET /posts/{id}/comments lists them
    nextId,           \* the id the next created comment gets
    clock,            \* the server's time, the source of updated_at
    visible,          \* document.visibilityState = "visible"
    events,           \* number of events from outside so far
    \* PostCard
    showComments,     \* useState showComments
    cardComments,     \* useState comments
    commentsLoading,  \* useState commentsLoading
    commentsError,    \* useState commentsError, as "is set"
    submit,           \* submitNewComment: its stage and the commentsLoading its closure holds
    \* CommentThread instances, numbered in the order they are mounted
    inst,             \* number of instances mounted so far; the last one is inst
    mounted,          \* whether instance inst is mounted
    timers,           \* bag of the active setInterval timers, each named by its instance
    liveComments,     \* useState liveComments of each instance
    prevRef,          \* prevRef.current of each instance
    threadTree,       \* the useMemo value `tree` of the mounted instance
    \* requests in flight, in the order they were issued
    inflight,
    \* CommentItem handlers and the host's onRefresh
    mutating,         \* reply, edit and delete requests of CommentItem handlers in flight
    parentRefreshes,  \* number of calls of refreshParent (the host's onRefresh)
    \* history of the polling and of the fetches
    skippedTicks,     \* number of ticks that returned without a fetch
    answers,          \* number of GETs the server has answered
    answerRank,       \* for each request in flight: 0, or n when its answer was the n-th
    shown,            \* the response the mounted thread handled last: its rank and the
                      \* number of requests in flight that were issued before its request
    \* the timer callback or response handler the last step ran: "Tick",
    \* "RefreshLocalOk", "RefreshLocalFail", "CardLoadOk", "CardLoadFail"; "other"
    \* after any other step
    last,
    \* localStorage and the API client (lib/api)
    accessToken,      \* localStorage access_token: 0 when absent, else the token
    refreshToken,     \* localStorage refresh_token: 0 when absent, else the token
    isRefreshing,     \* let isRefreshing
    failedQueue,      \* let failedQueue: the requests whose promise is queued
    requests,         \* the requests made through api, each with its config and stage
    refreshCalls,     \* number of POST /auth/refresh in flight
    issued,           \* number of access tokens /auth/refresh has issued
    apiLast,          \* the interceptor step taken last, with the queue it found
    \* votes: PostCard and the post detail page, shown the same post
    post,             \* the post as the server sent it: score and my_vote
    score,            \* PostCard useState score
    myVote,           \* PostCard useState myVote
    showLoginModal,       \* the login modal is open
    voteReqs,         \* POST /posts/{id}/vote of PostCard in flight, with their closures
    pageScore,        \* PostPage useState score
    pageMyVote,       \* PostPage useState myVote
    pageReqs,         \* POST /posts/{id}/vote of PostPage in flight
    clicks,           \* the vote clicks so far: what they found and what they sent
    voteLast          \* the vote step taken last, with the state it found

pureVars == <<comments, tree, gateA, gateB, gateResult, call, itemProps>>

apiVars == <<accessToken, refreshToken, isRefreshing, failedQueue, requests,
             refreshCalls, issued, apiLast>>

voteVars == <<post, score, myVote, showLoginModal, voteReqs, pageScore, pageMyVote,
              pageReqs, clicks, voteLast>>

clientVars == <<apiVars, voteVars>>

serverVars == <<server, nextId, clock>>

cardVars == <<showComments, cardComments, commentsLoading, commentsError, submit>>

threadVars == <<inst, mounted, timers, liveComments, prevRef, threadTree>>

itemVars == <<mutating, parentRefreshes>>

historyVars == <<skippedTicks, answers, answerRank, shown>>

vars == <<comments, tree, gateA, gateB, gateResult, call, itemProps, server,
          nextId, clock, visible, events, showComments, cardComments,
          commentsLoading, commentsError, submit, inst, mounted, timers,
          liveComments, prevRef, threadTree, inflight, last, mutating,
          parentRefreshes, skippedTicks, answers, answerRank, shown,
          accessToken, refreshToken, isRefreshing, failedQueue, requests,
          refreshCalls, issued, apiLast, post, score, myVote, showLoginModal,
          voteReqs, pageScore, pageMyVote, pageReqs, clicks, voteLast>>

-----------------------------------------------------------------------------
(* Bounds *)

\* longest flat list given to buildTree; ids are drawn from 0..MaxLen-1
MaxLen == 3
\* longest list given to sameComments; ids are drawn from 1..MaxGateLen
MaxGateLen == 2
\* events from outside in one behaviour: requests of other users to the server,
\* clicks, timer ticks, visibility changes.  Responses are not counted.
MaxEvents == 4

\* events from outside in SpecThread, where the user changes comments
MaxItemEvents == 2

-----------------------------------------------------------------------------
(* Values *)

\* parent_id: number | null.  null is modelled by -1, which is no comment id.
NULL == -1

\* updated_at values (ISO strings in the program, compared with !== only)
Stamps == {0, 1}

\* body values
Bodies == {0, 1}

\* JavaScript truthiness of a `number | null`: null and 0 are falsy.
Truthy(v) == v # NULL /\ v # 0

\* author.avatar_url: a path relative to the API base, as the server stores it, or
\* the absolute URL resolveMediaUrl makes of it
Avatars == {"rel", "abs"}

Comment(i, p, u, b, av) ==
    [id |-> i, parent_id |-> p, updated_at |-> u, body |-> b, avatar_url |-> av]

\* all sequences over S of length n
SeqsOfLen(S, n) == [1..n -> S]

\* all sequences over S of length at most n
SeqsUpTo(S, n) == UNION {SeqsOfLen(S, k) : k \in 0..n}

SeqToSet(s) == {s[i] : i \in 1..Len(s)}

Ids(list) == {list[i].id : i \in 1..Len(list)}

UniqueIds(list) ==
    \A i, j \in 1..Len(list) : list[i].id = list[j].id => i = j

\* flat lists with unique ids, as one fetch delivers them
FlatLists(ids, parents, stamps, bodies, n) ==
    {l \in SeqsUpTo([id : ids, parent_id : parents, updated_at : stamps,
                     body : bodies, avatar_url : {"abs"}], n) : UniqueIds(l)}

\* resolveMediaUrl with API_BASE set to an absolute URL: an absolute URL is
\* returned as it is, a relative path gets the base in front
resolveMediaUrl(path) == IF path = "abs" THEN path ELSE "abs"

patchCommentMedia(c) ==
    [c EXCEPT !.avatar_url = resolveMediaUrl(c.avatar_url)]

\* list.map(patchCommentMedia)
PatchAll(list) == [i \in 1..Len(list) |-> patchCommentMedia(list[i])]

RemoveAt(s, i) == SubSeq(s, 1, i - 1) \o SubSeq(s, i + 1, Len(s))

-----------------------------------------------------------------------------
(* buildTree *)

\* { ...c, children: [] }
MakeNode(c) ==
    [id |-> c.id, parent_id |-> c.parent_id, updated_at |-> c.updated_at,
     body |-> c.body, avatar_url |-> c.avatar_url, children |-> <<>>]

\* The Map<number, CommentNode> is a sequence of nodes in insertion order, keyed
\* by node.id.  A node object is referred to by its key: children and roots hold
\* keys where the program holds references to the objects of the map.
MapHas(m, k) == \E i \in 1..Len(m) : m[i].id = k

MapIdx(m, k) == CHOOSE i \in 1..Len(m) : m[i].id = k

MapGet(m, k) == m[MapIdx(m, k)]

\* Map.prototype.set: a new key is appended, an existing key keeps its place
MapSet(m, node) ==
    IF MapHas(m, node.id)
    THEN [m EXCEPT ![MapIdx(m, node.id)] = node]
    ELSE Append(m, node)

\* comments.forEach((c) => map.set(c.id, { ...c, children: [] }))
RECURSIVE FillMap(_, _)
FillMap(list, m) ==
    IF list = <<>> THEN m
    ELSE FillMap(Tail(list), MapSet(m, MakeNode(Head(list))))

\* the test of the linking pass: node.parent_id && map.has(node.parent_id)
HasResolvableParent(m, node) ==
    Truthy(node.parent_id) /\ MapHas(m, node.parent_id)

\* mutant of LinkNodes: a node whose parent is not in the map is skipped
RECURSIVE LinkNodesDropsOrphans(_, _, _)
LinkNodesDropsOrphans(i, m, roots) ==
    IF i > Len(m) THEN [heap |-> m, roots |-> roots]
    ELSE LET node == m[i] IN
         IF HasResolvableParent(m, node)
         THEN LinkNodesDropsOrphans(i + 1,
                  [m EXCEPT ![MapIdx(m, node.parent_id)].children =
                                Append(@, node.id)],
                  roots)
         ELSE IF Truthy(node.parent_id)
         THEN LinkNodesDropsOrphans(i + 1, m, roots)
         ELSE LinkNodesDropsOrphans(i + 1, m, Append(roots, node.id))

\* mutant of LinkNodes: a child is put in front of its siblings (unshift)
RECURSIVE LinkNodesPrepends(_, _, _)
LinkNodesPrepends(i, m, roots) ==
    IF i > Len(m) THEN [heap |-> m, roots |-> roots]
    ELSE LET node == m[i] IN
         IF HasResolvableParent(m, node)
         THEN LinkNodesPrepends(i + 1,
                  [m EXCEPT ![MapIdx(m, node.parent_id)].children =
                                <<node.id>> \o @],
                  roots)
         ELSE LinkNodesPrepends(i + 1, m, Append(roots, node.id))

\* mutant of LinkNodes: a root is put in front of the roots (unshift)
RECURSIVE LinkNodesRootsFirst(_, _, _)
LinkNodesRootsFirst(i, m, roots) ==
    IF i > Len(m) THEN [heap |-> m, roots |-> roots]
    ELSE LET node == m[i] IN
         IF HasResolvableParent(m, node)
         THEN LinkNodesRootsFirst(i + 1,
                  [m EXCEPT ![MapIdx(m, node.parent_id)].children =
                                Append(@, node.id)],
                  roots)
         ELSE LinkNodesRootsFirst(i + 1, m, <<node.id>> \o roots)

\* mutant of LinkNodes: a node with a parent is pushed to roots as well
RECURSIVE LinkNodesAlsoRoots(_, _, _)
LinkNodesAlsoRoots(i, m, roots) ==
    IF i > Len(m) THEN [heap |-> m, roots |-> roots]
    ELSE LET node == m[i] IN
         IF HasResolvableParent(m, node)
         THEN LinkNodesAlsoRoots(i + 1,
                  [m EXCEPT ![MapIdx(m, node.parent_id)].children =
                                Append(@, node.id)],
                  Append(roots, node.id))
         ELSE LinkNodesAlsoRoots(i + 1, m, Append(roots, node.id))

\* map.forEach((node) => ...): link to the parent, or push to roots
RECURSIVE LinkNodes(_, _, _)
LinkNodes(i, m, roots) ==
    IF i > Len(m) THEN [heap |-> m, roots |-> roots]
    ELSE LET node == m[i] IN
         IF HasResolvableParent(m, node)
         THEN LinkNodes(i + 1,
                  [m EXCEPT ![MapIdx(m, node.parent_id)].children =
                                Append(@, node.id)],
                  roots)
         ELSE LinkNodes(i + 1, m, Append(roots, node.id))

buildTree(list) == LinkNodes(1, FillMap(list, <<>>), <<>>)

NoTree == [heap |-> <<>>, roots |-> <<-2>>]

-----------------------------------------------------------------------------
(* buildTree on objects.  The flat list is an array of references to the     *)
(* comment objects; objects live in a store, a reference is an index of the  *)
(* store.  The objects of the argument are at 1..n; `{ ...c, children: [] }` *)
(* allocates behind them.  This is the same function as buildTree above,     *)
(* with the writes to objects and the ways a call can end made visible.      *)

\* a comment object as the fetch delivers it: it has no field `children`
ToObject(c) ==
    [id |-> c.id, parent_id |-> c.parent_id, updated_at |-> c.updated_at,
     body |-> c.body, avatar_url |-> c.avatar_url,
     hasChildren |-> FALSE, children |-> <<>>]

\* mutant of RunFill: the comment object itself is put in the map, after
\* `c.children = []`
RECURSIVE RunFillNoCopy(_, _, _, _)
RunFillNoCopy(objs, m, a, n) ==
    IF a > n THEN [objs |-> objs, map |-> m, filled |-> a - 1]
    ELSE RunFillNoCopy([objs EXCEPT ![a].hasChildren = TRUE, ![a].children = <<>>],
                       MapSet(m, [id |-> objs[a].id, addr |-> a]),
                       a + 1, n)

\* comments.forEach((c) => map.set(c.id, { ...c, children: [] })), from the
\* a-th comment on; n is the length of the argument
RECURSIVE RunFill(_, _, _, _)
RunFill(objs, m, a, n) ==
    IF a > n THEN [objs |-> objs, map |-> m, filled |-> a - 1]
    ELSE LET node == [objs[a] EXCEPT !.hasChildren = TRUE, !.children = <<>>]
             addr == Len(objs) + 1
         IN RunFill(Append(objs, node),
                    MapSet(m, [id |-> node.id, addr |-> addr]),
                    a + 1, n)

\* map.get(k): the reference stored under k, 0 for undefined
Deref(m, k) == IF MapHas(m, k) THEN MapGet(m, k).addr ELSE 0

\* mutant of RunLink: the test is `node.parent_id` alone, without map.has
RECURSIVE RunLinkUnguarded(_, _, _, _)
RunLinkUnguarded(objs, m, i, roots) ==
    IF i > Len(m)
    THEN [status |-> "returned", objs |-> objs, roots |-> roots, linked |-> i - 1]
    ELSE LET addr == m[i].addr
             node == objs[addr]
             parent == Deref(m, node.parent_id)
         IN IF Truthy(node.parent_id)
            THEN IF parent = 0
                 THEN [status |-> "threw", objs |-> objs, roots |-> roots,
                       linked |-> i - 1]
                 ELSE RunLinkUnguarded([objs EXCEPT ![parent].children = Append(@, addr)],
                                       m, i + 1, roots)
            ELSE RunLinkUnguarded(objs, m, i + 1, Append(roots, addr))

\* map.forEach((node) => ...), from the i-th entry on.
\* `map.get(node.parent_id)!.children.push(node)` throws a TypeError when
\* map.get returns undefined.
RECURSIVE RunLink(_, _, _, _)
RunLink(objs, m, i, roots) ==
    IF i > Len(m)
    THEN [status |-> "returned", objs |-> objs, roots |-> roots, linked |-> i - 1]
    ELSE LET addr == m[i].addr
             node == objs[addr]
             parent == Deref(m, node.parent_id)
         IN IF HasResolvableParent(m, node)
            THEN IF parent = 0
                 THEN [status |-> "threw", objs |-> objs, roots |-> roots,
                       linked |-> i - 1]
                 ELSE RunLink([objs EXCEPT ![parent].children = Append(@, addr)],
                              m, i + 1, roots)
            ELSE RunLink(objs, m, i + 1, Append(roots, addr))

\* the node at reference a, with ids where it holds references
NodeAt(objs, a) ==
    [id |-> objs[a].id, parent_id |-> objs[a].parent_id,
     updated_at |-> objs[a].updated_at, body |-> objs[a].body,
     avatar_url |-> objs[a].avatar_url,
     children |-> [j \in 1..Len(objs[a].children) |-> objs[objs[a].children[j]].id]]

\* one call of buildTree: how it ended, the iterations of its two passes, the
\* objects of the argument afterwards, and the returned structure
buildTreeRun(list) ==
    LET n == Len(list)
        fill == RunFill([i \in 1..n |-> ToObject(list[i])], <<>>, 1, n)
        link == RunLink(fill.objs, fill.map, 1, <<>>)
    IN [status |-> link.status,
        passes |-> <<fill.filled, link.linked>>,
        input |-> SubSeq(link.objs, 1, n),
        result |-> [heap |-> [i \in 1..Len(fill.map) |->
                                  NodeAt(link.objs, fill.map[i].addr)],
                    roots |-> [j \in 1..Len(link.roots) |->
                                  link.objs[link.roots[j]].id]]]

\* before buildTree is called
NoCall == [status |-> "none", passes |-> <<>>, input |-> <<>>, result |-> NoTree]

-----------------------------------------------------------------------------
(* Rendering: CommentThread renders a CommentItem per root, a CommentItem  *)
(* renders a CommentItem per child                                         *)

\* a function value is named by a string; refreshParent is optional
Callbacks(local, parent) == [refreshLocal |-> local, refreshParent |-> parent]

\* the pairs the thread can hold: its own refreshLocal and the host's onRefresh
ThreadCallbacks ==
    {Callbacks("refreshLocal", parent) : parent \in {"onRefresh", "undefined"}}

\* mutant of PassDown: a CommentItem gives its children a wrapper of its own
PassDownWrapped(cb) == Callbacks("wrapped", cb.refreshParent)

\* the props a CommentItem gives its children:
\* refreshLocal={refreshLocal} refreshParent={refreshParent}
PassDown(cb) == cb

\* <CommentItem node depth refreshLocal refreshParent /> and the CommentItems
\* below it: the props each one received
RECURSIVE RenderItem(_, _, _, _, _)
RenderItem(heap, key, depth, cb, fuel) ==
    IF fuel = 0 THEN {}
    ELSE {[id |-> key, depth |-> depth, refreshLocal |-> cb.refreshLocal,
           refreshParent |-> cb.refreshParent]}
         \cup UNION {RenderItem(heap, child, depth + 1, PassDown(cb), fuel - 1) :
                        child \in SeqToSet(MapGet(heap, key).children)}

\* tree.map((node) => <CommentItem depth={0} refreshLocal={refreshLocal}
\* refreshParent={onRefresh} />)
RenderThread(t, cb) ==
    UNION {RenderItem(t.heap, key, 0, cb, Len(t.heap) + 1) : key \in SeqToSet(t.roots)}

\* The CommentItems in the order React renders them: each key of `keys`, then
\* the items of its children, one level deeper.  A render deeper than `fuel`
\* levels is cut off and leaves an entry marked cut.
RECURSIVE RenderOrder(_, _, _, _)
RenderOrder(heap, keys, depth, fuel) ==
    IF keys = <<>> THEN <<>>
    ELSE IF fuel = 0 THEN <<[id |-> Head(keys), depth |-> depth, cut |-> TRUE]>>
    ELSE <<[id |-> Head(keys), depth |-> depth, cut |-> FALSE]>>
         \o RenderOrder(heap, MapGet(heap, Head(keys)).children, depth + 1, fuel - 1)
         \o RenderOrder(heap, Tail(keys), depth, fuel)

\* before the thread is rendered
NoRender == [done |-> FALSE, passed |-> Callbacks("none", "none"), items |-> {},
             order |-> <<>>]

-----------------------------------------------------------------------------
(* sameComments *)

\* mutant of SameLoop: the updated_at comparison is left out
RECURSIVE SameLoopIdsOnly(_, _, _)
SameLoopIdsOnly(a, b, i) ==
    IF i > Len(a) THEN TRUE
    ELSE IF a[i].id # b[i].id THEN FALSE
    ELSE SameLoopIdsOnly(a, b, i + 1)

\* the for loop, from index i on (1-based)
RECURSIVE SameLoop(_, _, _)
SameLoop(a, b, i) ==
    IF i > Len(a) THEN TRUE
    ELSE IF a[i].id # b[i].id THEN FALSE
    ELSE IF a[i].updated_at # b[i].updated_at THEN FALSE
    ELSE SameLoop(a, b, i + 1)

sameComments(a, b) ==
    IF Len(a) # Len(b) THEN FALSE ELSE SameLoop(a, b, 1)

-----------------------------------------------------------------------------
(* The page: comments resource, document, PostCard, CommentThread *)

pageVars == <<server, nextId, clock, visible, events, showComments, cardComments,
              commentsLoading, commentsError, submit, inst, mounted, timers,
              liveComments, prevRef, threadTree, inflight, last, mutating,
              parentRefreshes, skippedTicks, answers, answerRank, shown>>

\* an event from outside happens while the budget lasts
Outside == events < MaxEvents /\ events' = events + 1

\* a GET /posts/{id}/comments in flight: issued by refreshLocal of instance k
\* (who = "thread") or by PostCard.loadComments (who = "card", awaited by
\* submitNewComment when viaSubmit); resp is <<>> until the server has answered
ThreadReq(k) == [who |-> "thread", inst |-> k, resp |-> <<>>, viaSubmit |-> FALSE]

CardReq(viaSubmit) == [who |-> "card", inst |-> 0, resp |-> <<>>, viaSubmit |-> viaSubmit]

SubmitIdle == [stage |-> "idle", sawLoading |-> FALSE]

\* no response handled yet
NoneShown == [rank |-> 0, before |-> 0]

\* no interceptor step and no vote step taken yet
NoStep == [kind |-> "none", n |-> 0, found |-> <<>>]

\* nobody is logged in and no request was made through api
IdleApi ==
    /\ accessToken = 0
    /\ refreshToken = 0
    /\ isRefreshing = FALSE
    /\ failedQueue = <<>>
    /\ requests = <<>>
    /\ refreshCalls = 0
    /\ issued = 0
    /\ apiLast = NoStep

\* no post is shown
IdleVote ==
    /\ post = [score |-> 0, my_vote |-> <<>>]
    /\ score = 0
    /\ myVote = 0
    /\ showLoginModal = FALSE
    /\ voteReqs = {}
    /\ pageScore = 0
    /\ pageMyVote = 0
    /\ pageReqs = {}
    /\ clicks = <<>>
    /\ voteLast = NoStep

InitClient == IdleApi /\ IdleVote

InitPage ==
    /\ server = <<>>
    /\ nextId = 1
    /\ clock = 0
    /\ visible = TRUE
    /\ events = 0
    /\ showComments = FALSE
    /\ cardComments = <<>>
    /\ commentsLoading = FALSE
    /\ commentsError = FALSE
    /\ submit = SubmitIdle
    /\ inst = 0
    /\ mounted = FALSE
    /\ timers = EmptyBag
    /\ liveComments = <<>>
    /\ prevRef = <<>>
    /\ threadTree = NoTree
    /\ inflight = <<>>
    /\ last = "other"
    /\ mutating = <<>>
    /\ parentRefreshes = 0
    /\ skippedTicks = 0
    /\ answers = 0
    /\ answerRank = <<>>
    /\ shown = NoneShown

-----------------------------------------------------------------------------
(* The comments resource: other users and the server *)

\* POST /posts/{id}/comments by anyone: a fresh id, the parent an existing
\* comment or none
ServerAdd(p) ==
    /\ Outside
    /\ p \in {NULL} \cup {server[i].id : i \in 1..Len(server)}
    /\ server' = Append(server, Comment(nextId, p, clock, 0, "rel"))
    /\ nextId' = nextId + 1
    /\ last' = "other"
    /\ UNCHANGED <<clock, visible, inflight>>
    /\ UNCHANGED <<cardVars, threadVars, pureVars, clientVars>>

\* PUT /posts/{id}/comments/{cid}: the body changes and updated_at is the new time
ServerEdit(i) ==
    /\ Outside
    /\ i \in 1..Len(server)
    /\ clock' = clock + 1
    /\ server' = [server EXCEPT ![i].body = 1 - @, ![i].updated_at = clock + 1]
    /\ last' = "other"
    /\ UNCHANGED <<nextId, visible, inflight>>
    /\ UNCHANGED <<cardVars, threadVars, pureVars, clientVars>>

\* DELETE /posts/{id}/comments/{cid}
ServerDelete(i) ==
    /\ Outside
    /\ i \in 1..Len(server)
    /\ server' = RemoveAt(server, i)
    /\ last' = "other"
    /\ UNCHANGED <<nextId, clock, visible, inflight>>
    /\ UNCHANGED <<cardVars, threadVars, pureVars, clientVars>>

\* the server answers a GET with the list as it is now
ServerAnswer(i) ==
    /\ i \in 1..Len(inflight)
    /\ inflight[i].resp = <<>>
    /\ inflight' = [inflight EXCEPT ![i].resp = <<server>>]
    /\ last' = "other"
    /\ UNCHANGED <<serverVars, visible, events>>
    /\ UNCHANGED <<cardVars, threadVars, pureVars, clientVars>>

\* the tab is brought to the foreground or sent to the background
VisibilityChange ==
    /\ Outside
    /\ visible' = ~visible
    /\ last' = "other"
    /\ UNCHANGED <<serverVars, inflight>>
    /\ UNCHANGED <<cardVars, threadVars, pureVars, clientVars>>

-----------------------------------------------------------------------------
(* CommentThread *)

\* mutant of GateReplaces: the test is inverted
GateReplacesInverted(held, candidate) == sameComments(held, candidate)

\* if (!sameComments(held, candidate)) { ...replace... }
GateReplaces(held, candidate) == ~sameComments(held, candidate)

\* mutant of TickFetches: the visibility test is left out
TickFetchesAlways(isVisible) == TRUE

\* mutant of Cleanup: the effect returns no cleanup
CleanupKeepsTimer(ts, k) == ts

\* the cleanup of the polling effect: if (timer) clearInterval(timer)
Cleanup(ts, k) == ts (-) SetToBag({k})

\* PostCard renders <CommentThread> under
\* showComments && !commentsLoading && !commentsError
ThreadRendered(show, loading, error) == show /\ ~loading /\ ~error

\* tick(): refreshLocal() is called only in the foreground
TickFetches(isVisible) == isVisible

\* What a re-render of PostCard does to the thread: `rendered` is whether the
\* thread is rendered now, `propSet` whether setComments was called, `prop` the
\* comments prop, `base` the requests in flight before the thread's effects.
ThreadFollows(ev, rendered, propSet, prop, base) ==
    IF mounted /\ ~rendered
    THEN \* unmount: the cleanup of the polling effect clears the timer
         /\ mounted' = FALSE
         /\ timers' = Cleanup(timers, inst)
         /\ threadTree' = NoTree
         /\ inflight' = base
         /\ last' = ev
         /\ UNCHANGED <<inst, liveComments, prevRef>>
    ELSE IF ~mounted /\ rendered
    THEN \* mount: useState initializer, useRef, the prop-sync effect, then the
         \* polling effect: tick() and setInterval
         LET k == inst + 1
             initial == PatchAll(prop)
             incoming == PatchAll(prop)
             held == IF GateReplaces(initial, incoming) THEN incoming
                     ELSE initial
         IN /\ inst' = k
            /\ mounted' = TRUE
            /\ liveComments' = Append(liveComments, held)
            /\ prevRef' = Append(prevRef, held)
            /\ threadTree' = buildTree(held)
            /\ timers' = timers (+) SetToBag({k})
            /\ inflight' = IF TickFetches(visible)
                           THEN Append(base, ThreadReq(k))
                           ELSE base
            /\ last' = ev
    ELSE IF mounted /\ rendered /\ propSet
    THEN \* the prop-sync effect: the gate against liveComments
         LET incoming == PatchAll(prop)
             replaced == GateReplaces(liveComments[inst], incoming)
         IN /\ liveComments' = IF replaced
                               THEN [liveComments EXCEPT ![inst] = incoming]
                               ELSE liveComments
            /\ prevRef' = IF replaced THEN [prevRef EXCEPT ![inst] = incoming]
                          ELSE prevRef
            /\ threadTree' = IF replaced THEN buildTree(incoming)
                             ELSE threadTree
            /\ inflight' = base
            /\ last' = ev
            /\ UNCHANGED <<inst, mounted, timers>>
    ELSE /\ inflight' = base
         /\ last' = ev
         /\ UNCHANGED <<inst, mounted, timers, liveComments, prevRef, threadTree>>

\* mutant of Tick: a tick in the background clears the interval
TickSkipCancels(k) ==
    /\ Outside
    /\ BagIn(k, timers)
    /\ inflight' = IF TickFetches(visible)
                   THEN Append(inflight, ThreadReq(k))
                   ELSE inflight
    /\ timers' = IF TickFetches(visible) THEN timers ELSE Cleanup(timers, k)
    /\ last' = "Tick"
    /\ UNCHANGED <<serverVars, visible, inst, mounted, liveComments, prevRef>>
    /\ UNCHANGED <<threadTree, cardVars, pureVars, clientVars>>

\* a tick of the interval timer of instance k
Tick(k) ==
    /\ Outside
    /\ BagIn(k, timers)
    /\ inflight' = IF TickFetches(visible)
                   THEN Append(inflight, ThreadReq(k))
                   ELSE inflight
    /\ last' = "Tick"
    /\ UNCHANGED <<serverVars, visible>>
    /\ UNCHANGED <<cardVars, threadVars, pureVars, clientVars>>

\* mutant of RefreshLocalOk: prevRef.current is not assigned
RefreshLocalOkKeepsRef(i) ==
    /\ i \in 1..Len(inflight)
    /\ inflight[i].who = "thread"
    /\ inflight[i].resp # <<>>
    /\ LET k == inflight[i].inst
           patched == PatchAll(inflight[i].resp[1])
           replaced == GateReplaces(prevRef[k], patched)
           alive == mounted /\ k = inst
       IN /\ prevRef' = prevRef
          /\ liveComments' = IF replaced /\ alive
                             THEN [liveComments EXCEPT ![k] = patched]
                             ELSE liveComments
          /\ threadTree' = IF replaced /\ alive THEN buildTree(patched)
                           ELSE threadTree
          /\ last' = "RefreshLocalOk"
    /\ inflight' = RemoveAt(inflight, i)
    /\ UNCHANGED <<serverVars, visible, events, inst, mounted, timers>>
    /\ UNCHANGED <<cardVars, pureVars, clientVars>>

\* refreshLocal of instance k after `await api.get`: the response has arrived.
\* setLiveComments on an unmounted component is dropped by React; the
\* assignment to prevRef.current is not.
RefreshLocalOk(i) ==
    /\ i \in 1..Len(inflight)
    /\ inflight[i].who = "thread"
    /\ inflight[i].resp # <<>>
    /\ LET k == inflight[i].inst
           patched == PatchAll(inflight[i].resp[1])
           replaced == GateReplaces(prevRef[k], patched)
           alive == mounted /\ k = inst
       IN /\ prevRef' = IF replaced THEN [prevRef EXCEPT ![k] = patched]
                        ELSE prevRef
          /\ liveComments' = IF replaced /\ alive
                             THEN [liveComments EXCEPT ![k] = patched]
                             ELSE liveComments
          /\ threadTree' = IF replaced /\ alive THEN buildTree(patched)
                           ELSE threadTree
          /\ last' = "RefreshLocalOk"
    /\ inflight' = RemoveAt(inflight, i)
    /\ UNCHANGED <<serverVars, visible, events, inst, mounted, timers>>
    /\ UNCHANGED <<cardVars, pureVars, clientVars>>

\* mutant of RefreshLocalFail: the catch block empties the list, as
\* PostCard.loadComments does
RefreshLocalFailClears(i) ==
    /\ i \in 1..Len(inflight)
    /\ inflight[i].who = "thread"
    /\ LET k == inflight[i].inst IN
          /\ liveComments' = [liveComments EXCEPT ![k] = <<>>]
          /\ prevRef' = [prevRef EXCEPT ![k] = <<>>]
          /\ threadTree' = IF mounted /\ k = inst THEN buildTree(<<>>)
                           ELSE threadTree
          /\ last' = "RefreshLocalFail"
    /\ inflight' = RemoveAt(inflight, i)
    /\ UNCHANGED <<serverVars, visible, events, inst, mounted, timers>>
    /\ UNCHANGED <<cardVars, pureVars, clientVars>>

\* refreshLocal of instance k: api.get rejects (network error or non-2xx,
\* before or after the server saw the request); catch logs and returns
RefreshLocalFail(i) ==
    /\ i \in 1..Len(inflight)
    /\ inflight[i].who = "thread"
    /\ last' = "RefreshLocalFail"
    /\ inflight' = RemoveAt(inflight, i)
    /\ UNCHANGED <<serverVars, visible, events>>
    /\ UNCHANGED <<cardVars, threadVars, pureVars, clientVars>>

-----------------------------------------------------------------------------
(* PostCard *)

\* the "N comments" button: setShowComments((v) => !v), then the effect on
\* [showComments], which calls loadComments when the list is empty
CardToggleComments ==
    LET show == ~showComments
        loads == show /\ Len(cardComments) = 0 /\ ~commentsLoading
        loading == IF loads THEN TRUE ELSE commentsLoading
        error == IF loads THEN FALSE ELSE commentsError
    IN /\ Outside
       /\ showComments' = show
       /\ commentsLoading' = loading
       /\ commentsError' = error
       /\ ThreadFollows("other",
                        ThreadRendered(show, loading, error), FALSE, cardComments,
                        IF loads THEN Append(inflight, CardReq(FALSE))
                        ELSE inflight)
       /\ UNCHANGED <<serverVars, visible, cardComments, submit, pureVars, clientVars>>

\* submitNewComment up to `await api.post`: the handler's closure holds the
\* commentsLoading of the render the click happened in
CardSubmitClick ==
    /\ Outside
    /\ showComments
    /\ submit.stage = "idle"
    /\ submit' = [stage |-> "posting", sawLoading |-> commentsLoading]
    /\ last' = "other"
    /\ UNCHANGED <<serverVars, visible, inflight>>
    /\ UNCHANGED <<showComments, cardComments, commentsLoading, commentsError>>
    /\ UNCHANGED <<threadVars, pureVars, clientVars>>

\* submitNewComment: the POST succeeded (the server has stored the top-level
\* comment); `await loadComments()` runs loadComments up to its api.get, or
\* returns at once when the closure's commentsLoading is set
CardSubmitPosted ==
    /\ submit.stage = "posting"
    /\ server' = Append(server, Comment(nextId, NULL, clock, 0, "rel"))
    /\ nextId' = nextId + 1
    /\ IF submit.sawLoading
       THEN /\ submit' = SubmitIdle
            /\ UNCHANGED <<commentsLoading, commentsError>>
            /\ ThreadFollows("other",
                   ThreadRendered(showComments, commentsLoading, commentsError),
                   FALSE, cardComments, inflight)
       ELSE /\ submit' = [stage |-> "reloading", sawLoading |-> FALSE]
            /\ commentsLoading' = TRUE
            /\ commentsError' = FALSE
            /\ ThreadFollows("other",
                   ThreadRendered(showComments, TRUE, FALSE),
                   FALSE, cardComments, Append(inflight, CardReq(TRUE)))
    /\ UNCHANGED <<clock, visible, events, showComments, cardComments, pureVars, clientVars>>

\* submitNewComment: the POST failed; catch, then finally
CardSubmitFailed ==
    /\ submit.stage = "posting"
    /\ submit' = SubmitIdle
    /\ last' = "other"
    /\ UNCHANGED <<serverVars, visible, events, inflight>>
    /\ UNCHANGED <<showComments, cardComments, commentsLoading, commentsError>>
    /\ UNCHANGED <<threadVars, pureVars, clientVars>>

\* loadComments after `await api.get`: setComments(fixed), finally
\* setCommentsLoading(false); submitNewComment, when it awaits this call, ends
CardLoadOk(i) ==
    /\ i \in 1..Len(inflight)
    /\ inflight[i].who = "card"
    /\ inflight[i].resp # <<>>
    /\ LET fixed == PatchAll(inflight[i].resp[1]) IN
          /\ cardComments' = fixed
          /\ commentsLoading' = FALSE
          /\ ThreadFollows("CardLoadOk",
                 ThreadRendered(showComments, FALSE, commentsError),
                 TRUE, fixed, RemoveAt(inflight, i))
    /\ submit' = IF inflight[i].viaSubmit THEN SubmitIdle ELSE submit
    /\ UNCHANGED <<serverVars, visible, events, showComments, commentsError, pureVars, clientVars>>

\* loadComments: api.get rejects; catch sets the error and setComments([]),
\* finally setCommentsLoading(false)
CardLoadFail(i) ==
    /\ i \in 1..Len(inflight)
    /\ inflight[i].who = "card"
    /\ cardComments' = <<>>
    /\ commentsError' = TRUE
    /\ commentsLoading' = FALSE
    /\ ThreadFollows("CardLoadFail",
           ThreadRendered(showComments, FALSE, TRUE),
           TRUE, <<>>, RemoveAt(inflight, i))
    /\ submit' = IF inflight[i].viaSubmit THEN SubmitIdle ELSE submit
    /\ UNCHANGED <<serverVars, visible, events, showComments, pureVars, clientVars>>

-----------------------------------------------------------------------------
(* Spec: the page *)

Init ==
    /\ comments = <<>>
    /\ tree = NoTree
    /\ gateA = <<>>
    /\ gateB = <<>>
    /\ gateResult = <<>>
    /\ call = NoCall
    /\ itemProps = NoRender
    /\ InitPage
    /\ InitClient

Next ==
    \/ \E p \in {NULL} \cup Ids(server) :
           ServerAdd(p) /\ UNCHANGED <<itemVars, historyVars>>
    \/ \E i \in 1..Len(server) :
           ServerEdit(i) /\ UNCHANGED <<itemVars, historyVars>>
    \/ \E i \in 1..Len(server) :
           ServerDelete(i) /\ UNCHANGED <<itemVars, historyVars>>
    \/ \E i \in 1..Len(inflight) :
           ServerAnswer(i) /\ UNCHANGED <<itemVars, historyVars>>
    \/ VisibilityChange /\ UNCHANGED <<itemVars, historyVars>>
    \/ \E k \in BagToSet(timers) :
           Tick(k) /\ UNCHANGED <<itemVars, historyVars>>
    \/ \E i \in 1..Len(inflight) :
           RefreshLocalOk(i) /\ UNCHANGED <<itemVars, historyVars>>
    \/ \E i \in 1..Len(inflight) :
           RefreshLocalFail(i) /\ UNCHANGED <<itemVars, historyVars>>
    \/ CardToggleComments /\ UNCHANGED <<itemVars, historyVars>>
    \/ CardSubmitClick /\ UNCHANGED <<itemVars, historyVars>>
    \/ CardSubmitPosted /\ UNCHANGED <<itemVars, historyVars>>
    \/ CardSubmitFailed /\ UNCHANGED <<itemVars, historyVars>>
    \/ \E i \in 1..Len(inflight) :
           CardLoadOk(i) /\ UNCHANGED <<itemVars, historyVars>>
    \/ \E i \in 1..Len(inflight) :
           CardLoadFail(i) /\ UNCHANGED <<itemVars, historyVars>>

Spec == Init /\ [][Next]_vars

-----------------------------------------------------------------------------
(* SpecThread: one CommentThread under any host, with its CommentItems.    *)
(* The host mounts and unmounts the thread and passes onRefresh; the user  *)
(* replies to, edits and deletes the comments the thread shows.            *)

MutationKinds == {"reply", "edit", "delete"}

\* the GET of a refreshLocal() that a CommentItem handler awaits
AwaitedReq(k) == [who |-> "thread", inst |-> k, resp |-> <<>>, viaSubmit |-> TRUE]

\* the list the host holds and the server has when the thread is first rendered
FirstList == <<Comment(1, NULL, 0, 0, "rel")>>

\* answerRank follows inflight: a request issued in this step has no answer yet
Issued(rank) == IF Len(inflight') = Len(rank) + 1 THEN Append(rank, 0) ELSE rank

\* request i leaves inflight: one request fewer was issued before the shown one
Shift(i) == IF i <= shown.before THEN [shown EXCEPT !.before = @ - 1] ELSE shown

\* `await refreshLocal(); refreshParent?.()`: the handler that awaited request i
\* goes on to call refreshParent
AfterAwait(i) == parentRefreshes + (IF inflight[i].viaSubmit THEN 1 ELSE 0)

\* the host has rendered the thread with FirstList: useState, useRef, useMemo,
\* the polling effect with its initial tick
InitThread ==
    /\ comments = <<>>
    /\ tree = NoTree
    /\ gateA = <<>>
    /\ gateB = <<>>
    /\ gateResult = <<>>
    /\ call = NoCall
    /\ itemProps = NoRender
    /\ server = FirstList
    /\ nextId = 2
    /\ clock = 0
    /\ visible = TRUE
    /\ events = 0
    /\ showComments = TRUE
    /\ cardComments = PatchAll(FirstList)
    /\ commentsLoading = FALSE
    /\ commentsError = FALSE
    /\ submit = SubmitIdle
    /\ inst = 1
    /\ mounted = TRUE
    /\ timers = SetToBag({1})
    /\ liveComments = <<PatchAll(FirstList)>>
    /\ prevRef = <<PatchAll(FirstList)>>
    /\ threadTree = buildTree(PatchAll(FirstList))
    /\ inflight = <<ThreadReq(1)>>
    /\ last = "other"
    /\ mutating = <<>>
    /\ parentRefreshes = 0
    /\ skippedTicks = 0
    /\ answers = 0
    /\ answerRank = <<0>>
    /\ shown = NoneShown
    /\ InitClient

\* a tick of the interval timer, with the history of the polling
ThreadTick(k) ==
    /\ Tick(k)
    /\ skippedTicks' = IF Len(inflight') = Len(inflight) THEN skippedTicks + 1
                       ELSE skippedTicks
    /\ answerRank' = Issued(answerRank)
    /\ UNCHANGED <<answers, shown, itemVars>>

ThreadVisibility == VisibilityChange /\ UNCHANGED <<itemVars, historyVars>>

ThreadAnswer(i) ==
    /\ ServerAnswer(i)
    /\ answers' = answers + 1
    /\ answerRank' = [answerRank EXCEPT ![i] = answers + 1]
    /\ UNCHANGED <<skippedTicks, shown, itemVars>>

\* refreshLocal handles the response of request i; a handler that awaited it
\* calls refreshParent
ThreadRefreshOk(i) ==
    /\ RefreshLocalOk(i)
    /\ answerRank' = RemoveAt(answerRank, i)
    /\ shown' = IF mounted /\ inflight[i].inst = inst
                THEN [rank |-> answerRank[i], before |-> i - 1]
                ELSE Shift(i)
    /\ parentRefreshes' = AfterAwait(i)
    /\ UNCHANGED <<mutating, skippedTicks, answers>>

\* refreshLocal catches the failure of request i and returns; a handler that
\* awaited it calls refreshParent
ThreadRefreshFail(i) ==
    /\ RefreshLocalFail(i)
    /\ answerRank' = RemoveAt(answerRank, i)
    /\ shown' = Shift(i)
    /\ parentRefreshes' = AfterAwait(i)
    /\ UNCHANGED <<mutating, skippedTicks, answers>>

\* handleReply, handleEditSave or handleDelete of the CommentItem of comment
\* `id`, up to its `await api.post / put / delete`
ItemClick(kind, id) ==
    /\ Outside
    /\ mounted
    /\ id \in Ids(liveComments[inst])
    /\ mutating' = Append(mutating, [kind |-> kind, id |-> id, inst |-> inst])
    /\ last' = "other"
    /\ UNCHANGED <<serverVars, visible, inflight, parentRefreshes>>
    /\ UNCHANGED <<cardVars, threadVars, pureVars, clientVars, historyVars>>

\* what the server stores when it accepts the request
Applied(m) ==
    LET i == CHOOSE j \in 1..Len(server) : server[j].id = m.id IN
    IF m.kind = "reply" THEN Append(server, Comment(nextId, m.id, clock, 0, "rel"))
    ELSE IF m.kind = "edit"
    THEN [server EXCEPT ![i].body = 1 - @, ![i].updated_at = clock + 1]
    ELSE RemoveAt(server, i)

\* mutant of ItemMutationFail: the catch block refreshes all the same
ItemMutationFailRefetches(j) ==
    /\ j \in 1..Len(mutating)
    /\ mutating' = RemoveAt(mutating, j)
    /\ inflight' = Append(inflight, AwaitedReq(mutating[j].inst))
    /\ answerRank' = Append(answerRank, 0)
    /\ last' = "MutationFail"
    /\ UNCHANGED <<serverVars, visible, events, parentRefreshes>>
    /\ UNCHANGED <<cardVars, threadVars, pureVars, clientVars, skippedTicks, answers, shown>>

\* the request of handler j succeeded: the handler calls refreshLocal(), which
\* issues its GET, and awaits it
ItemMutationOk(j) ==
    /\ j \in 1..Len(mutating)
    /\ mutating[j].id \in Ids(server)
    /\ server' = Applied(mutating[j])
    /\ nextId' = IF mutating[j].kind = "reply" THEN nextId + 1 ELSE nextId
    /\ clock' = IF mutating[j].kind = "edit" THEN clock + 1 ELSE clock
    /\ mutating' = RemoveAt(mutating, j)
    /\ inflight' = Append(inflight, AwaitedReq(mutating[j].inst))
    /\ answerRank' = Append(answerRank, 0)
    /\ last' = "MutationOk"
    /\ UNCHANGED <<visible, events, parentRefreshes>>
    /\ UNCHANGED <<cardVars, threadVars, pureVars, clientVars, skippedTicks, answers, shown>>

\* the request of handler j failed: catch logs, nothing else runs
ItemMutationFail(j) ==
    /\ j \in 1..Len(mutating)
    /\ mutating' = RemoveAt(mutating, j)
    /\ last' = "MutationFail"
    /\ UNCHANGED <<serverVars, visible, events, inflight, parentRefreshes>>
    /\ UNCHANGED <<cardVars, threadVars, pureVars, clientVars, historyVars>>

\* the host stops rendering the thread
HostUnmount ==
    /\ Outside
    /\ mounted
    /\ ThreadFollows("other", FALSE, FALSE, cardComments, inflight)
    /\ UNCHANGED <<serverVars, visible, cardVars, pureVars, clientVars, itemVars, historyVars>>

\* the host renders the thread again
HostMount ==
    /\ Outside
    /\ ~mounted
    /\ ThreadFollows("other", TRUE, FALSE, cardComments, inflight)
    /\ answerRank' = Issued(answerRank)
    /\ shown' = NoneShown
    /\ UNCHANGED <<serverVars, visible, cardVars, pureVars, clientVars, itemVars>>
    /\ UNCHANGED <<skippedTicks, answers>>

\* the host passes a new `comments` prop, the list it has just fetched: the
\* prop-sync effect of the mounted thread runs
HostSetsComments ==
    /\ Outside
    /\ mounted
    /\ cardComments' = PatchAll(server)
    /\ ThreadFollows("PropSync", TRUE, TRUE, PatchAll(server), inflight)
    /\ UNCHANGED <<serverVars, visible, showComments, commentsLoading>>
    /\ UNCHANGED <<commentsError, submit, pureVars, clientVars, itemVars, historyVars>>

\* postId or autoRefreshMs changes: the cleanup of the polling effect, then the
\* effect again with its initial tick
EffectRerun ==
    /\ Outside
    /\ mounted
    /\ timers' = Cleanup(timers, inst) (+) SetToBag({inst})
    /\ inflight' = IF TickFetches(visible)
                   THEN Append(inflight, ThreadReq(inst))
                   ELSE inflight
    /\ answerRank' = Issued(answerRank)
    /\ skippedTicks' = IF TickFetches(visible) THEN skippedTicks
                       ELSE skippedTicks + 1
    /\ last' = "EffectRerun"
    /\ UNCHANGED <<serverVars, visible, inst, mounted, liveComments, prevRef>>
    /\ UNCHANGED <<threadTree, cardVars, pureVars, clientVars, itemVars, answers, shown>>

\* SpecThread allows MaxItemEvents events from outside
NextThread ==
    \/ \E k \in BagToSet(timers) : ThreadTick(k) /\ events' <= MaxItemEvents
    \/ ThreadVisibility /\ events' <= MaxItemEvents
    \/ \E i \in 1..Len(inflight) : ThreadAnswer(i)
    \/ \E i \in 1..Len(inflight) : ThreadRefreshOk(i)
    \/ \E i \in 1..Len(inflight) : ThreadRefreshFail(i)
    \/ \E kind \in MutationKinds, id \in Ids(server) :
           ItemClick(kind, id) /\ events' <= MaxItemEvents
    \/ \E j \in 1..Len(mutating) : ItemMutationOk(j)
    \/ \E j \in 1..Len(mutating) : ItemMutationFail(j)
    \/ HostUnmount /\ events' <= MaxItemEvents
    \/ HostMount /\ events' <= MaxItemEvents
    \/ HostSetsComments /\ events' <= MaxItemEvents
    \/ EffectRerun /\ events' <= MaxItemEvents

SpecThread == InitThread /\ [][NextThread]_vars

-----------------------------------------------------------------------------
(* SpecPoll: the polling of one CommentThread while nobody changes the     *)
(* comments: ticks, visibility changes, teardown, MaxEvents events         *)

NextPoll ==
    \/ \E k \in BagToSet(timers) : ThreadTick(k)
    \/ ThreadVisibility
    \/ \E i \in 1..Len(inflight) : ThreadAnswer(i)
    \/ \E i \in 1..Len(inflight) : ThreadRefreshOk(i)
    \/ \E i \in 1..Len(inflight) : ThreadRefreshFail(i)
    \/ HostUnmount
    \/ HostMount
    \/ EffectRerun

SpecPoll == InitThread /\ [][NextPoll]_vars

-----------------------------------------------------------------------------
(* SpecTree: buildTree applied to every bounded flat list *)

TreeIds == 0..(MaxLen - 1)

\* MaxLen is an id that no comment of the list has: a dangling parent
TreeParents == {NULL} \cup 0..MaxLen

TreeInputs == FlatLists(TreeIds, TreeParents, Stamps, {0}, MaxLen)

InitTree ==
    /\ comments \in TreeInputs
    /\ tree = NoTree
    /\ gateA = <<>>
    /\ gateB = <<>>
    /\ gateResult = <<>>
    /\ call = NoCall
    /\ itemProps = NoRender
    /\ InitPage
    /\ InitClient

CallBuildTree ==
    /\ tree = NoTree
    /\ tree' = buildTree(comments)
    /\ call' = buildTreeRun(comments)
    /\ UNCHANGED <<comments, gateA, gateB, gateResult, itemProps>>
    /\ UNCHANGED <<pageVars, clientVars>>

\* the thread renders the tree with the callbacks it holds
CallRender ==
    /\ tree # NoTree
    /\ ~itemProps.done
    /\ \E cb \in ThreadCallbacks :
           itemProps' = [done |-> TRUE, passed |-> cb,
                         items |-> RenderThread(tree, cb),
                         order |-> RenderOrder(tree.heap, tree.roots, 0,
                                               Len(tree.heap) + 1)]
    /\ UNCHANGED <<comments, tree, gateA, gateB, gateResult, call>>
    /\ UNCHANGED <<pageVars, clientVars>>

NextTree == CallBuildTree \/ CallRender

SpecTree == InitTree /\ [][NextTree]_vars

-----------------------------------------------------------------------------
(* SpecGate: sameComments applied to every bounded pair of lists *)

GateIds == 1..MaxGateLen

GateInputs == FlatLists(GateIds, {NULL}, Stamps, Bodies, MaxGateLen)

InitGate ==
    /\ gateA \in GateInputs
    /\ gateB \in GateInputs
    /\ gateResult = <<>>
    /\ comments = <<>>
    /\ tree = NoTree
    /\ call = NoCall
    /\ itemProps = NoRender
    /\ InitPage
    /\ InitClient

CallSameComments ==
    /\ gateResult = <<>>
    /\ gateResult' = <<sameComments(gateA, gateB)>>
    /\ UNCHANGED <<comments, tree, gateA, gateB, call, itemProps>>
    /\ UNCHANGED <<pageVars, clientVars>>

NextGate == CallSameComments

SpecGate == InitGate /\ [][NextGate]_vars

-----------------------------------------------------------------------------
(* Helpers of the properties *)

NoDuplicates(s) == \A i, j \in 1..Len(s) : s[i] = s[j] => i = j

\* position of id k in a sequence of ids, 0 when absent
PosOf(s, k) == IF \E i \in 1..Len(s) : s[i] = k
               THEN CHOOSE i \in 1..Len(s) : s[i] = k
               ELSE 0

\* Pre-order traversal of children from a sequence of node keys.  `fuel` bounds
\* the depth, so that the traversal is defined on any structure.
RECURSIVE Preorder(_, _, _)
Preorder(heap, keys, fuel) ==
    IF keys = <<>> \/ fuel = 0 THEN <<>>
    ELSE <<Head(keys)>>
         \o Preorder(heap, MapGet(heap, Head(keys)).children, fuel - 1)
         \o Preorder(heap, Tail(keys), fuel)

\* the comment of the list with id k
ById(list, k) == list[CHOOSE i \in 1..Len(list) : list[i].id = k]

\* following parent_id from comment c leaves the list within `fuel` steps
RECURSIVE ChainEnds(_, _, _)
ChainEnds(list, c, fuel) ==
    IF c.parent_id = NULL \/ c.parent_id \notin Ids(list) THEN TRUE
    ELSE IF fuel = 0 THEN FALSE
    ELSE ChainEnds(list, ById(list, c.parent_id), fuel - 1)

\* no comment of the list is its own ancestor: what a server that only lets a
\* reply name an existing comment delivers
Acyclic(list) ==
    \A i \in 1..Len(list) : ChainEnds(list, list[i], Len(list))

Flatten(t) == Preorder(t.heap, t.roots, Len(t.heap) + 1)

Built == tree # NoTree

-----------------------------------------------------------------------------
(* C1..C3: buildTree, under SpecTree *)

\* C1: the roots are exactly the comments with no resolvable parent (parent_id
\* null, or equal to no id of the list), and the children of every node are
\* exactly the comments whose parent_id equals the node's id, for every id
\* value, 0 included.  Stated for the lists whose parent references do not loop.
C1_RootsAndChildrenExact ==
    Built /\ Acyclic(comments) =>
        /\ NoDuplicates(tree.roots)
        /\ SeqToSet(tree.roots) =
               {comments[i].id : i \in {j \in 1..Len(comments) :
                    \/ comments[j].parent_id = NULL
                    \/ comments[j].parent_id \notin Ids(comments)}}
        /\ \A n \in 1..Len(tree.heap) :
               /\ NoDuplicates(tree.heap[n].children)
               /\ SeqToSet(tree.heap[n].children) =
                      {comments[i].id : i \in {j \in 1..Len(comments) :
                           comments[j].parent_id = tree.heap[n].id}}

\* a comment of the input whose parent_id names an id absent from the input
Dangling(c) == c.parent_id # NULL /\ c.parent_id \notin Ids(comments)

\* C2: a comment whose parent_id refers to an id absent from the batch is
\* returned as a root: once in roots, in no children list, and the call
\* returns a tree.
C2_DanglingParentIsRoot ==
    Built =>
        \A i \in 1..Len(comments) :
            Dangling(comments[i]) =>
                /\ Cardinality({r \in 1..Len(tree.roots) :
                                    tree.roots[r] = comments[i].id}) = 1
                /\ \A n \in 1..Len(tree.heap) :
                       comments[i].id \notin SeqToSet(tree.heap[n].children)
                /\ MapHas(tree.heap, comments[i].id)
                /\ MapGet(tree.heap, comments[i].id).parent_id
                       = comments[i].parent_id

\* C2 witness: a built tree of a list holding a dangling comment next to a
\* comment with a parent in the list.
C2_Witness ==
    /\ Built
    /\ \E i, j \in 1..Len(comments) :
           /\ Dangling(comments[i])
           /\ comments[i].parent_id # 0
           /\ comments[j].parent_id \in Ids(comments)
           /\ comments[i].id \in SeqToSet(tree.roots)

\* C3: flattening the returned roots in pre-order yields every input comment
\* exactly once and nothing else, each comment after its parent when the parent
\* is in the batch.  Stated for the lists whose parent references do not loop.
C3_RoundTrip ==
    Built /\ Acyclic(comments) =>
        LET flat == Flatten(tree) IN
        /\ NoDuplicates(flat)
        /\ SeqToSet(flat) = Ids(comments)
        /\ Len(flat) = Len(comments)
        /\ \A i \in 1..Len(comments) :
               comments[i].parent_id \in Ids(comments) =>
                   PosOf(flat, comments[i].parent_id)
                       < PosOf(flat, comments[i].id)

-----------------------------------------------------------------------------
(* C4: sameComments, under SpecGate *)

\* the list with every field but id and updated_at erased
Erase(list) ==
    [i \in 1..Len(list) |->
        Comment(list[i].id, NULL, list[i].updated_at, 0, "abs")]

\* the documented equivalence rule
PositionallyEqual(a, b) ==
    /\ Len(a) = Len(b)
    /\ \A i \in 1..Len(a) :
           a[i].id = b[i].id /\ a[i].updated_at = b[i].updated_at

\* b holds the comments of a in another order
Reordered(a, b) ==
    /\ Len(a) = Len(b)
    /\ SeqToSet(a) = SeqToSet(b)
    /\ a # b

\* C4: sameComments is TRUE exactly when the lengths are equal and id and
\* updated_at agree at every position; the other fields do not influence it;
\* the same comments in another order are not equivalent.
C4_GateIsPositional ==
    gateResult # <<>> =>
        /\ gateResult[1] = PositionallyEqual(gateA, gateB)
        /\ gateResult[1] = sameComments(Erase(gateA), Erase(gateB))
        /\ Reordered(gateA, gateB) => gateResult[1] = FALSE

\* C4 witness: two lists reported equivalent although a body differs
C4_Witness ==
    /\ gateResult = <<TRUE>>
    /\ Len(gateA) = MaxGateLen
    /\ \E i \in 1..Len(gateA) : gateA[i].body # gateB[i].body

-----------------------------------------------------------------------------
(* C5..C10: CommentThread and PostCard, under Spec *)

\* instance k is the mounted one
Alive(k) == mounted /\ k = inst

\* this step handled the response (or the failure) of request i of refreshLocal
HandledThreadReq(i) ==
    /\ i \in 1..Len(inflight)
    /\ inflight[i].who = "thread"
    /\ inflight' = RemoveAt(inflight, i)

ThreadReqCount(s) == Cardinality({i \in 1..Len(s) : s[i].who = "thread"})

\* the gate's policy for the list `held` of the mounted instance and `cand`
PolicyFollowed(held, cand) ==
    IF PositionallyEqual(held, cand)
    THEN /\ liveComments'[inst] = liveComments[inst]
         /\ prevRef'[inst] = prevRef[inst]
         /\ threadTree' = threadTree
    ELSE /\ liveComments'[inst] = cand
         /\ prevRef'[inst] = cand
         /\ threadTree' = buildTree(cand)

\* C5: when the candidate (of refreshLocal, or of a changed comments prop) is
\* equivalent to the held list, liveComments, prevRef and the tree of the
\* mounted thread stay as they are; when it is not, liveComments is the
\* candidate and the tree is built from it.
C5_GatePolicy ==
    [][/\ last' = "RefreshLocalOk" =>
            \A i \in 1..Len(inflight) :
                HandledThreadReq(i) /\ inflight[i].resp # <<>>
                    /\ Alive(inflight[i].inst) =>
                    PolicyFollowed(prevRef[inst], PatchAll(inflight[i].resp[1]))
       /\ last' = "CardLoadOk" /\ mounted /\ mounted' =>
            PolicyFollowed(liveComments[inst], PatchAll(cardComments'))
      ]_vars

\* C5 witness: the mounted thread shows a list that a refresh put in place of
\* the list of the comments prop
C5_Witness ==
    /\ last = "RefreshLocalOk"
    /\ mounted
    /\ Len(liveComments[inst]) > 0
    /\ ~PositionallyEqual(liveComments[inst], PatchAll(cardComments))
    /\ prevRef[inst] = liveComments[inst]

\* C6: after refreshLocal has handled a response, the mounted thread shows the
\* fetched list, in membership and in every field: no addition, deletion or
\* edit on the server is missed.
C6_NoMissedUpdate ==
    [][last' = "RefreshLocalOk" =>
           \A i \in 1..Len(inflight) :
               HandledThreadReq(i) /\ inflight[i].resp # <<>>
                   /\ Alive(inflight[i].inst) =>
                   liveComments'[inst] = PatchAll(inflight[i].resp[1])
      ]_vars

\* C6 witness: the thread shows the edited body of a comment that the comments
\* prop holds with the body it had before
C6_Witness ==
    /\ last = "RefreshLocalOk"
    /\ mounted
    /\ \E i \in 1..Len(liveComments[inst]), j \in 1..Len(cardComments) :
           /\ liveComments[inst][i].id = cardComments[j].id
           /\ liveComments[inst][i].body # cardComments[j].body

\* C7: a response of refreshLocal that arrives after its thread was unmounted
\* updates neither liveComments nor prevRef.
C7_LateResponseIgnored ==
    [][\A i \in 1..Len(inflight) :
           HandledThreadReq(i) /\ ~Alive(inflight[i].inst) =>
               /\ liveComments' = liveComments
               /\ prevRef' = prevRef
      ]_vars

\* C8: a failed fetch of refreshLocal leaves liveComments, prevRef and the tree
\* as they were, and the interval timer stays active.
C8_FailedRefreshKeepsState ==
    [][last' = "RefreshLocalFail" =>
           /\ liveComments' = liveComments
           /\ prevRef' = prevRef
           /\ threadTree' = threadTree
           /\ timers' = timers
           /\ (mounted => mounted' /\ BagIn(inst, timers'))
      ]_vars

\* C8 witness: a fetch of the mounted thread has failed while it shows comments
C8_Witness ==
    /\ last = "RefreshLocalFail"
    /\ mounted
    /\ BagIn(inst, timers)
    /\ Len(liveComments[inst]) > 0

\* C9: when the fetch of PostCard.loadComments fails, the comments held before
\* are the ones held afterwards.
C9_FailedLoadKeepsComments ==
    [][last' = "CardLoadFail" => cardComments' = cardComments]_vars

\* C10: a timer tick, and the tick at mount, issue a fetch only when the
\* document is visible; while it is hidden a tick issues none.
C10_FetchOnlyWhenVisible ==
    [][(last' = "Tick" \/ inst' # inst) =>
           /\ ThreadReqCount(inflight') > ThreadReqCount(inflight) => visible
           /\ ~visible => ThreadReqCount(inflight') = ThreadReqCount(inflight)
      ]_vars

\* C10 witness: the timer of the mounted thread has ticked while the document
\* was hidden and no fetch is in flight
C10_Witness ==
    /\ last = "Tick"
    /\ ~visible
    /\ mounted
    /\ inflight = <<>>

-----------------------------------------------------------------------------
(* C11: polling after backgrounding, under SpecPoll *)

\* C11: a tick never cancels the timer, however many ticks were skipped, and a
\* tick of the mounted thread in the foreground issues a fetch: after the
\* document is visible again the first tick fetches.
C11_PollingResumes ==
    [][last' = "Tick" =>
           /\ timers' = timers
           /\ (mounted => BagIn(inst, timers'))
           /\ (visible /\ mounted =>
                  /\ Len(inflight') = Len(inflight) + 1
                  /\ inflight'[Len(inflight')] = ThreadReq(inst))
      ]_vars

\* C11 witness: ticks were skipped in the background, the document is visible
\* again and the tick that just ran has issued a fetch
C11_Witness ==
    /\ last = "Tick"
    /\ visible
    /\ mounted
    /\ skippedTicks >= 1
    /\ inflight # <<>>
    /\ inflight[Len(inflight)] = ThreadReq(inst)

-----------------------------------------------------------------------------
(* C12: reply, edit, delete and the re-fetch, under SpecThread *)

\* the GETs in flight that a CommentItem handler awaits
AwaitedCount(s) ==
    Cardinality({i \in 1..Len(s) : s[i].who = "thread" /\ s[i].viaSubmit})

\* this step ends a refreshLocal() that a CommentItem handler awaited
AwaitedEnds == \E i \in 1..Len(inflight) : HandledThreadReq(i) /\ inflight[i].viaSubmit

\* C12: the step in which a reply, edit or delete succeeds issues the GET of
\* refreshLocal, and no other step issues a GET for a handler; when that
\* refreshLocal ends, and only then, refreshParent is called once; the step in
\* which a reply, edit or delete fails issues no GET and calls nothing.
C12_RefetchIffMutationSucceeded ==
    [][/\ last' = "MutationOk" =>
            /\ Len(inflight') = Len(inflight) + 1
            /\ inflight'[Len(inflight')].who = "thread"
            /\ inflight'[Len(inflight')].viaSubmit
            /\ SubSeq(inflight', 1, Len(inflight)) = inflight
       /\ last' = "MutationFail" =>
            /\ inflight' = inflight
            /\ parentRefreshes' = parentRefreshes
       /\ AwaitedCount(inflight') > AwaitedCount(inflight) => last' = "MutationOk"
       /\ parentRefreshes' =
              parentRefreshes + (IF AwaitedEnds /\ mutating' = mutating THEN 1 ELSE 0)
      ]_vars

\* C12 witness: a reply succeeded, the re-fetch brought it to the thread and
\* refreshParent was called
C12_Witness ==
    /\ last = "RefreshLocalOk"
    /\ mounted
    /\ parentRefreshes = 1
    /\ Len(liveComments[inst]) = 2
    /\ mutating = <<>>

-----------------------------------------------------------------------------
(* C13..C14: order of children and of roots, under SpecTree *)

\* the ids of the flat list, in its order
InputIds == [i \in 1..Len(comments) |-> comments[i].id]

\* the ids of seq keep the relative order they have in the flat list
InInputOrder(seq) ==
    \A a, b \in 1..Len(seq) :
        a < b => PosOf(InputIds, seq[a]) < PosOf(InputIds, seq[b])

\* C13: the children of every node are in the relative order of the flat list,
\* whatever their ids and timestamps are.
C13_ChildrenInInputOrder ==
    Built => \A n \in 1..Len(tree.heap) : InInputOrder(tree.heap[n].children)

\* C13 witness: a node has two children, the first with the greater id and
\* the later timestamp
C13_Witness ==
    /\ Built
    /\ \E n \in 1..Len(tree.heap) :
           LET ch == tree.heap[n].children IN
           /\ Len(ch) = 2
           /\ ch[1] > ch[2]
           /\ MapGet(tree.heap, ch[1]).updated_at > MapGet(tree.heap, ch[2]).updated_at

AllTopLevel == \A i \in 1..Len(comments) : comments[i].parent_id = NULL

\* C14: when every comment has parent_id null, the roots are the comments of
\* the flat list, one each and in its order, and every node has no children.
C14_AllNullParents ==
    Built /\ AllTopLevel =>
        /\ tree.roots = InputIds
        /\ Len(tree.heap) = Len(comments)
        /\ \A n \in 1..Len(tree.heap) : tree.heap[n].children = <<>>

\* C14 witness: a list of MaxLen top-level comments, ids not ascending, built
C14_Witness ==
    /\ Built
    /\ AllTopLevel
    /\ Len(comments) = MaxLen
    /\ comments[1].id > comments[2].id

-----------------------------------------------------------------------------
(* C15: ancestors in the built structure, under SpecTree *)

\* the keys reachable from the keys of S by following children, S included
RECURSIVE Reach(_, _, _)
Reach(heap, S, fuel) ==
    IF fuel = 0 THEN S
    ELSE Reach(heap,
               S \cup UNION {SeqToSet(MapGet(heap, k).children) : k \in S},
               fuel - 1)

\* node k is reachable from itself by following children
OwnAncestor(heap, k) ==
    k \in Reach(heap, SeqToSet(MapGet(heap, k).children), Len(heap))

\* C15: in the structure buildTree returns no node is reachable from itself
\* by following children, whatever the parent_ids of the batch are.
C15_NoSelfAncestor ==
    Built => \A n \in 1..Len(tree.heap) : ~OwnAncestor(tree.heap, tree.heap[n].id)

-----------------------------------------------------------------------------
(* C16..C17: the call of buildTree on objects, under SpecTree *)

\* the call on objects returns what buildTree returns
RunAgrees == Built => call.status = "returned" /\ call.result = tree

\* some parent_id names no comment of the list
HasDangling == \E i \in 1..Len(comments) : Dangling(comments[i])

\* C16: every call returns, without an exception, after one iteration per
\* comment in the filling pass and one iteration per map entry in the linking
\* pass; lists with dangling parents and with loops of parents included.
C16_Total ==
    Built =>
        /\ call.status = "returned"
        /\ call.passes = <<Len(comments), Len(comments)>>
        /\ Len(tree.heap) = Len(comments)

\* C16 witness: a call has returned for a list with a loop of parents and a
\* dangling parent
C16_Witness ==
    /\ Built
    /\ call.status = "returned"
    /\ ~Acyclic(comments)
    /\ HasDangling

\* C17: after the call the objects of the argument are the objects that were
\* passed, in the same order, none with a field more or a field changed.
C17_InputNotMutated ==
    Built =>
        call.input = [i \in 1..Len(comments) |-> ToObject(comments[i])]

\* C17 witness: a call that attached a child has returned
C17_Witness ==
    /\ Built
    /\ call.status = "returned"
    /\ Len(call.input) >= 2
    /\ \E n \in 1..Len(tree.heap) : tree.heap[n].children # <<>>

-----------------------------------------------------------------------------
(* C18: the callbacks of the rendered CommentItems, under SpecTree *)

\* C18: every rendered CommentItem, at any depth, has received the refreshLocal
\* and the refreshParent that the thread gave to the roots; the rendered
\* items are the nodes below the roots.
C18_CallbacksThreaded ==
    itemProps.done =>
        /\ \A it \in itemProps.items :
               /\ it.refreshLocal = itemProps.passed.refreshLocal
               /\ it.refreshParent = itemProps.passed.refreshParent
        /\ {it.id : it \in itemProps.items}
               = Reach(tree.heap, SeqToSet(tree.roots), Len(tree.heap))

\* C18 witness: a thread with a reply to a reply is rendered
C18_Witness ==
    /\ itemProps.done
    /\ \E it \in itemProps.items : it.depth = 2
    /\ itemProps.passed.refreshParent = "onRefresh"

-----------------------------------------------------------------------------
(* C19: the timer after teardown, under SpecPoll *)

\* C19: after every step the active timers are the one timer of the mounted
\* thread, or none when no thread is mounted (teardown and a change of postId
\* or autoRefreshMs cancel the timer they replace); so a tick runs only for the
\* mounted thread, and the fetch it issues is a fetch of that thread.
C19_TimerCancelled ==
    [][/\ BagCardinality(timers') = (IF mounted' THEN 1 ELSE 0)
       /\ (mounted' => BagIn(inst', timers'))
       /\ last' = "Tick" =>
              /\ mounted
              /\ (Len(inflight') > Len(inflight) =>
                      inflight'[Len(inflight')].inst = inst)
      ]_vars

\* C19 witness: the thread was torn down, no timer is left, and a response for
\* it is still in flight
C19_Witness ==
    /\ ~mounted
    /\ inst >= 1
    /\ timers = EmptyBag
    /\ inflight # <<>>
    /\ events < MaxEvents

-----------------------------------------------------------------------------
(* C20: two fetches in flight, under SpecThread *)

\* this step handles request i of the mounted thread
HandledByThread(i) ==
    /\ HandledThreadReq(i)
    /\ answerRank' = RemoveAt(answerRank, i)
    /\ Alive(inflight[i].inst)

\* request i was issued before the request whose response the thread handled
\* last, and the server answered it earlier: its list is the older snapshot
Overtaken(i) == i <= shown.before /\ 0 < answerRank[i] /\ answerRank[i] < shown.rank

\* C20: the response of a request that was issued earlier and answered earlier
\* than the one the thread has already handled does not change the displayed
\* list: the list never goes back to an older snapshot of the server.
C20_NoRegress ==
    [][last' = "RefreshLocalOk" =>
           \A i \in 1..Len(inflight) :
               HandledByThread(i) /\ Overtaken(i) => liveComments' = liveComments
      ]_vars

-----------------------------------------------------------------------------
(* C21: prevRef and liveComments, under SpecThread *)

\* C21: the list the gate compares a fetched candidate with, prevRef.current,
\* is the list the mounted thread displays, liveComments, after every prop
\* sync, polling refresh and refresh that follows a reply, edit or delete.
C21_RefIsDisplayed == mounted => prevRef[inst] = liveComments[inst]

\* C21 witness: the host passed a list that replaced the displayed one, with a
\* reply that a refresh had not yet brought
C21_Witness ==
    /\ last = "PropSync"
    /\ mounted
    /\ Len(liveComments[inst]) = 2
    /\ prevRef[inst] = liveComments[inst]
    /\ inflight # <<>>

-----------------------------------------------------------------------------
(* C22: the rendered nodes are a forest, under SpecTree *)

\* the ids in the order they were rendered
RenderedIds == [i \in 1..Len(itemProps.order) |-> itemProps.order[i].id]

\* the number of children sequences and of root entries that hold key k
Holders(t, k) ==
    Cardinality({<<n, j>> \in (1..Len(t.heap)) \X (1..Len(t.heap)) :
                    j <= Len(t.heap[n].children) /\ t.heap[n].children[j] = k})
    + Cardinality({j \in 1..Len(t.roots) : t.roots[j] = k})

\* C22: the render of the returned structure ends, no comment is rendered
\* twice, every rendered comment is held by exactly one children sequence or
\* by roots, a root is at depth 0; also when the parent_ids of the list loop.
C22_RenderedForest ==
    itemProps.done =>
        /\ \A i \in 1..Len(itemProps.order) : ~itemProps.order[i].cut
        /\ NoDuplicates(RenderedIds)
        /\ Len(RenderedIds) <= Len(comments)
        /\ \A i \in 1..Len(RenderedIds) : Holders(tree, RenderedIds[i]) = 1
        /\ \A i \in 1..Len(itemProps.order) :
               itemProps.order[i].depth = 0
                   <=> itemProps.order[i].id \in SeqToSet(tree.roots)

\* C22 witness: a list with a comment that is its own parent, next to a
\* comment with a reply, is rendered
C22_Witness ==
    /\ itemProps.done
    /\ ~Acyclic(comments)
    /\ \E i \in 1..Len(itemProps.order) : itemProps.order[i].depth = 1

-----------------------------------------------------------------------------
(* Votes: PostCard.handleVote and PostPage.handleVote on the same post *)

MaxClicks == 2

\* the scores and the my_vote values a post arrives with; <<>> is a missing my_vote
Scores == {-1, 0, 2}

Votes == {-1, 0, 1}

Posts == [score : Scores, my_vote : {<<>>} \cup {<<v>> : v \in Votes}]

\* the statuses of a failed vote request
FailStatuses == {401, 500}

\* x ?? 0
OrZero(opt) == IF opt = <<>> THEN 0 ELSE opt[1]

\* mutant of LoggedIn: the stored token is not looked at
LoggedInAlways(token) == TRUE

\* const token = getAccessToken(); if (!token) ...
LoggedIn(token) == token # 0

\* let nextVote: undo the existing vote, or the new or changed vote
nextVote(mv, value) == IF mv = value THEN 0 ELSE value

\* mutant of nextScore: undoing a vote leaves the score
nextScoreKeepsOnUndo(sc, mv, value) ==
    IF mv = value THEN sc ELSE sc - mv + value

\* let nextScore
nextScore(sc, mv, value) ==
    IF mv = value THEN sc - value ELSE sc - mv + value

\* mutant of Rollback: the score is not rolled back
RollbackVoteOnly(req, sc) == [score |-> sc, myVote |-> req.previousVote]

\* catch: setMyVote(previousVote); setScore(previousScore)
Rollback(req, sc) == [score |-> req.previousScore, myVote |-> req.previousVote]

\* the post has arrived: PostCard's useState initial values, PostPage's load
InitVote ==
    /\ comments = <<>>
    /\ tree = NoTree
    /\ gateA = <<>>
    /\ gateB = <<>>
    /\ gateResult = <<>>
    /\ call = NoCall
    /\ itemProps = NoRender
    /\ InitPage
    /\ IdleApi
    /\ post \in Posts
    /\ score = post.score
    /\ myVote = OrZero(post.my_vote)
    /\ showLoginModal = FALSE
    /\ voteReqs = {}
    /\ pageScore = post.score
    /\ pageMyVote = OrZero(post.my_vote)
    /\ pageReqs = {}
    /\ clicks = <<>>
    /\ voteLast = NoStep

\* PostCard.handleVote(value) up to its await; n numbers the click
CardHandleVote(value, n) ==
    IF ~LoggedIn(accessToken)
    THEN /\ showLoginModal' = TRUE
         /\ UNCHANGED <<score, myVote, voteReqs>>
    ELSE /\ myVote' = nextVote(myVote, value)
         /\ score' = nextScore(score, myVote, value)
         /\ voteReqs' = voteReqs \cup
                {[n |-> n, value |-> nextVote(myVote, value),
                  previousVote |-> myVote, previousScore |-> score]}
         /\ UNCHANGED showLoginModal

\* PostPage.handleVote(value) up to its await, the post being loaded
PageHandleVote(value, n) ==
    /\ pageScore' = IF pageMyVote = value THEN pageScore - value
                    ELSE pageScore - pageMyVote + value
    /\ pageMyVote' = IF pageMyVote = value THEN 0 ELSE value
    /\ pageReqs' = pageReqs \cup
           {[n |-> n, value |-> IF pageMyVote = value THEN 0 ELSE value]}

\* the values a set of requests sends for click n
SentFor(reqs, n) == {r.value : r \in {q \in reqs : q.n = n}}

\* the viewer clicks the up or the down arrow, on the card and on the page
VoteClick(value) ==
    /\ Len(clicks) < MaxClicks
    /\ CardHandleVote(value, Len(clicks) + 1)
    /\ PageHandleVote(value, Len(clicks) + 1)
    /\ clicks' = Append(clicks,
           [value |-> value, loggedIn |-> accessToken # 0,
            score |-> score, myVote |-> myVote,
            cardSent |-> SentFor(voteReqs', Len(clicks) + 1),
            pageSent |-> SentFor(pageReqs', Len(clicks) + 1)])
    /\ voteLast' = [kind |-> "click", n |-> Len(clicks) + 1, found |-> <<score, myVote>>]
    /\ UNCHANGED <<post, apiVars, pureVars, pageVars>>

\* the requests of click n are in flight
Voting(n) == \E r \in voteReqs \cup pageReqs : r.n = n

\* await api.post(...) returns: neither handler does anything more
VoteSucceeded(n) ==
    /\ Voting(n)
    /\ voteReqs' = {r \in voteReqs : r.n # n}
    /\ pageReqs' = {r \in pageReqs : r.n # n}
    /\ voteLast' = [kind |-> "ok", n |-> n, found |-> <<score, myVote>>]
    /\ UNCHANGED <<score, myVote, showLoginModal, pageScore, pageMyVote>>
    /\ UNCHANGED <<post, clicks, apiVars, pureVars, pageVars>>

\* await api.post(...) throws: PostCard's catch rolls back and opens the modal
\* on 401, PostPage's catch logs
VoteFailed(n, status) ==
    /\ Voting(n)
    /\ IF \E r \in voteReqs : r.n = n
       THEN LET req == CHOOSE r \in voteReqs : r.n = n IN
            /\ myVote' = Rollback(req, score).myVote
            /\ score' = Rollback(req, score).score
            /\ showLoginModal' = (showLoginModal \/ status = 401)
       ELSE UNCHANGED <<score, myVote, showLoginModal>>
    /\ voteReqs' = {r \in voteReqs : r.n # n}
    /\ pageReqs' = {r \in pageReqs : r.n # n}
    /\ voteLast' = [kind |-> "failed", n |-> n, found |-> <<score, myVote>>]
    /\ UNCHANGED <<pageScore, pageMyVote>>
    /\ UNCHANGED <<post, clicks, apiVars, pureVars, pageVars>>

\* closeLoginModal
CloseLoginModal ==
    /\ showLoginModal
    /\ showLoginModal' = FALSE
    /\ voteLast' = [kind |-> "other", n |-> 0, found |-> <<>>]
    /\ UNCHANGED <<post, score, myVote, voteReqs, pageScore, pageMyVote, pageReqs>>
    /\ UNCHANGED <<clicks, apiVars, pureVars, pageVars>>

\* a login stores an access token (setTokens), a logout removes it (clearTokens)
TokenStored ==
    /\ accessToken = 0
    /\ accessToken' = 1
    /\ voteLast' = [kind |-> "other", n |-> 0, found |-> <<>>]
    /\ UNCHANGED <<refreshToken, isRefreshing, failedQueue, requests, refreshCalls>>
    /\ UNCHANGED <<issued, apiLast, post, score, myVote, showLoginModal, voteReqs>>
    /\ UNCHANGED <<pageScore, pageMyVote, pageReqs, clicks, pureVars, pageVars>>

TokenCleared ==
    /\ accessToken # 0
    /\ accessToken' = 0
    /\ voteLast' = [kind |-> "other", n |-> 0, found |-> <<>>]
    /\ UNCHANGED <<refreshToken, isRefreshing, failedQueue, requests, refreshCalls>>
    /\ UNCHANGED <<issued, apiLast, post, score, myVote, showLoginModal, voteReqs>>
    /\ UNCHANGED <<pageScore, pageMyVote, pageReqs, clicks, pureVars, pageVars>>

NextVote ==
    \/ \E value \in {1, -1} : VoteClick(value)
    \/ \E n \in 1..MaxClicks : VoteSucceeded(n)
    \/ \E n \in 1..MaxClicks : \E status \in FailStatuses : VoteFailed(n, status)
    \/ CloseLoginModal
    \/ TokenStored
    \/ TokenCleared

SpecVote == InitVote /\ [][NextVote]_vars

\* the click the last vote step belongs to
LastClick == clicks[voteLast.n]

\* C23: a failed vote request of PostCard puts score and myVote back to what
\* they were just before its click; a successful one changes nothing; the
\* click itself shows the optimistic values: vote 0 and the score minus the
\* old vote when the click undoes the vote, else the clicked value and the
\* score minus the old vote plus the clicked value.
C23_OptimisticWithRollback ==
    /\ (voteLast.kind = "failed" /\ LastClick.cardSent # {}) =>
           /\ score = LastClick.score
           /\ myVote = LastClick.myVote
    /\ voteLast.kind = "ok" => <<score, myVote>> = voteLast.found
    /\ (voteLast.kind = "click" /\ LastClick.loggedIn) =>
           IF LastClick.myVote = LastClick.value
           THEN myVote = 0 /\ score = LastClick.score - LastClick.myVote
           ELSE /\ myVote = LastClick.value
                /\ score = LastClick.score - LastClick.myVote + LastClick.value

\* C23 witness: a request fails after a later click has changed what is shown
C23_Witness ==
    /\ voteLast.kind = "failed"
    /\ LastClick.cardSent # {}
    /\ voteLast.n < Len(clicks)
    /\ voteLast.found # <<score, myVote>>

\* C24: a vote click in PostCard with no access token stored sends no request
\* and leaves score and myVote as they were; the login modal is open.
C24_NoTokenNoVote ==
    (voteLast.kind = "click" /\ ~LastClick.loggedIn) =>
        /\ LastClick.cardSent = {}
        /\ \A r \in voteReqs : r.n # voteLast.n
        /\ <<score, myVote>> = voteLast.found
        /\ showLoginModal

\* C24 witness: a click without a token while an earlier vote is in flight
C24_Witness ==
    /\ voteLast.kind = "click"
    /\ ~LastClick.loggedIn
    /\ voteReqs # {}
    /\ myVote # 0

\* C25: in PostCard myVote is -1, 0 or 1 and score - myVote is the post's
\* initial score minus its initial my_vote, whatever was clicked and however
\* the requests ended.
C25_ScoreFollowsVote ==
    /\ myVote \in Votes
    /\ score - myVote = post.score - OrZero(post.my_vote)

\* C25 witness: after two clicks a request fails while the other is in flight
C25_Witness ==
    /\ Len(clicks) = MaxClicks
    /\ voteLast.kind = "failed"
    /\ voteLast.found # <<score, myVote>>
    /\ voteReqs # {}

\* C26: for a logged-in viewer PostCard and the post detail page send the same
\* value for every click and show the same score and vote once every request
\* has ended, by success or by failure.
C26_SameAsPostPage ==
    (/\ \A i \in 1..Len(clicks) : clicks[i].loggedIn
     /\ voteReqs = {}
     /\ pageReqs = {}) =>
        /\ \A i \in 1..Len(clicks) : clicks[i].cardSent = clicks[i].pageSent
        /\ <<score, myVote>> = <<pageScore, pageMyVote>>

-----------------------------------------------------------------------------
(* The API client: the response interceptor's handling of 401 *)

MaxRequests == 2

MaxRefreshes == 1

\* the statuses of an error response
ErrorStatuses == {401, 500}

\* a request made through api, as the request interceptor sends it: the
\* Authorization header carries the stored access token (0: no header)
NewRequest(token) ==
    [stage |-> "sent", retry |-> FALSE, auth |-> token, error |-> "none"]

\* the requests in a stage
InStage(reqs, stage) == {i \in DOMAIN reqs : reqs[i].stage = stage}

\* mutant of processQueue: the queue is dropped without settling its promises
processQueueDrops(reqs, queue, failed, token) == reqs

\* processQueue(error, token): reject every queued promise with the error, or
\* resolve it with the token; a resolved promise's then() sets the header and
\* sends the request again
processQueue(reqs, queue, failed, token) ==
    [i \in DOMAIN reqs |->
        IF i \notin SeqToSet(queue) THEN reqs[i]
        ELSE IF failed
             THEN [reqs[i] EXCEPT !.stage = "rejected", !.error = "refresh"]
             ELSE [reqs[i] EXCEPT !.stage = "sent", !.auth = token]]

\* mutant of MustQueue: isRefreshing is not looked at
MustQueueNever(refreshing) == FALSE

\* if (isRefreshing)
MustQueue(refreshing) == refreshing

\* what an interceptor step found: the queue, isRefreshing, refreshes in flight
Found == <<failedQueue, isRefreshing, refreshCalls>>

\* nothing stored, nothing requested
InitApi ==
    /\ comments = <<>>
    /\ tree = NoTree
    /\ gateA = <<>>
    /\ gateB = <<>>
    /\ gateResult = <<>>
    /\ call = NoCall
    /\ itemProps = NoRender
    /\ InitPage
    /\ InitClient

\* the login page stores the tokens: setTokens(access, refresh)
ApiLogin(refresh) ==
    /\ accessToken = 0
    /\ accessToken' = 1 + issued
    /\ refreshToken' = IF refresh # 0 THEN refresh ELSE refreshToken
    /\ apiLast' = [kind |-> "other", n |-> 0, found |-> <<>>]
    /\ UNCHANGED <<isRefreshing, failedQueue, requests, refreshCalls, issued>>
    /\ UNCHANGED <<voteVars, pureVars, pageVars>>

\* the Navbar's logout: clearTokens()
ApiLogout ==
    /\ accessToken # 0 \/ refreshToken # 0
    /\ accessToken' = 0
    /\ refreshToken' = 0
    /\ apiLast' = [kind |-> "other", n |-> 0, found |-> <<>>]
    /\ UNCHANGED <<isRefreshing, failedQueue, requests, refreshCalls, issued>>
    /\ UNCHANGED <<voteVars, pureVars, pageVars>>

\* some component calls api.get / api.post: the request interceptor runs
ApiCall ==
    /\ Len(requests) < MaxRequests
    /\ requests' = Append(requests, NewRequest(accessToken))
    /\ apiLast' = [kind |-> "call", n |-> Len(requests) + 1, found |-> <<>>]
    /\ UNCHANGED <<accessToken, refreshToken, isRefreshing, failedQueue>>
    /\ UNCHANGED <<refreshCalls, issued, voteVars, pureVars, pageVars>>

\* (response) => response
ResponseOk(r) ==
    /\ r \in DOMAIN requests
    /\ requests[r].stage = "sent"
    /\ requests' = [requests EXCEPT ![r].stage = "resolved"]
    /\ apiLast' = [kind |-> "ok", n |-> r, found |-> <<>>]
    /\ UNCHANGED <<accessToken, refreshToken, isRefreshing, failedQueue>>
    /\ UNCHANGED <<refreshCalls, issued, voteVars, pureVars, pageVars>>

\* async (error) => ..., up to its first await or return
ResponseError(r, status) ==
    /\ r \in DOMAIN requests
    /\ requests[r].stage = "sent"
    /\ apiLast' = [kind |-> IF status = 401 THEN "401" ELSE "error", n |-> r,
                   found |-> Found]
    /\ IF status = 401 /\ ~requests[r].retry
       THEN IF MustQueue(isRefreshing)
            THEN /\ failedQueue' = Append(failedQueue, r)
                 /\ requests' = [requests EXCEPT ![r].stage = "queued"]
                 /\ UNCHANGED <<accessToken, refreshToken, isRefreshing, refreshCalls>>
            ELSE IF refreshToken = 0
            THEN \* isRefreshing = true; clearTokens(); isRefreshing = false
                 /\ requests' = [requests EXCEPT ![r].retry = TRUE,
                                                 ![r].stage = "rejected",
                                                 ![r].error = "response"]
                 /\ accessToken' = 0
                 /\ refreshToken' = 0
                 /\ isRefreshing' = FALSE
                 /\ UNCHANGED <<failedQueue, refreshCalls>>
            ELSE /\ requests' = [requests EXCEPT ![r].retry = TRUE,
                                                 ![r].stage = "refreshing"]
                 /\ isRefreshing' = TRUE
                 /\ refreshCalls' = refreshCalls + 1
                 /\ UNCHANGED <<accessToken, refreshToken, failedQueue>>
       ELSE /\ requests' = [requests EXCEPT ![r].stage = "rejected",
                                            ![r].error = "response"]
            /\ UNCHANGED <<accessToken, refreshToken, isRefreshing, failedQueue>>
            /\ UNCHANGED refreshCalls
    /\ UNCHANGED <<issued, voteVars, pureVars, pageVars>>

\* POST /auth/refresh answers: setTokens, processQueue(null, newAccess),
\* isRefreshing = false, the original request is sent again
RefreshSucceeds(r, newRefresh) ==
    /\ r \in DOMAIN requests
    /\ requests[r].stage = "refreshing"
    /\ issued < MaxRefreshes
    /\ issued' = issued + 1
    /\ refreshCalls' = refreshCalls - 1
    /\ accessToken' = 2 + issued
    /\ refreshToken' = IF newRefresh # 0 THEN newRefresh ELSE refreshToken
    /\ requests' = [processQueue(requests, failedQueue, FALSE, 2 + issued)
                        EXCEPT ![r].stage = "sent", ![r].auth = 2 + issued]
    /\ failedQueue' = <<>>
    /\ isRefreshing' = FALSE
    /\ apiLast' = [kind |-> "refreshed", n |-> r, found |-> Found]
    /\ UNCHANGED <<voteVars, pureVars, pageVars>>

\* POST /auth/refresh fails: processQueue(err, null), isRefreshing = false,
\* clearTokens(), the original request is rejected with the refresh error
RefreshFails(r) ==
    /\ r \in DOMAIN requests
    /\ requests[r].stage = "refreshing"
    /\ refreshCalls' = refreshCalls - 1
    /\ requests' = [processQueue(requests, failedQueue, TRUE, 0)
                        EXCEPT ![r].stage = "rejected", ![r].error = "refresh"]
    /\ failedQueue' = <<>>
    /\ isRefreshing' = FALSE
    /\ accessToken' = 0
    /\ refreshToken' = 0
    /\ apiLast' = [kind |-> "refreshFailed", n |-> r, found |-> Found]
    /\ UNCHANGED <<issued, voteVars, pureVars, pageVars>>

NextApi ==
    \/ \E refresh \in {0, 1} : ApiLogin(refresh)
    \/ ApiLogout
    \/ ApiCall
    \/ \E r \in 1..MaxRequests : ResponseOk(r)
    \/ \E r \in 1..MaxRequests : \E status \in ErrorStatuses : ResponseError(r, status)
    \/ \E r \in 1..MaxRequests : \E newRefresh \in {0, 1} : RefreshSucceeds(r, newRefresh)
    \/ \E r \in 1..MaxRequests : RefreshFails(r)

SpecApi == InitApi /\ [][NextApi]_vars

\* the POST /auth/refresh in flight gets its answer or its error
RefreshEnds ==
    \E r \in 1..MaxRequests :
        \/ \E newRefresh \in {0, 1} : RefreshSucceeds(r, newRefresh)
        \/ RefreshFails(r)

\* the client with a network that answers every /auth/refresh
SpecApiLive == InitApi /\ [][NextApi]_vars /\ WF_vars(RefreshEnds)

\* C27: at most one POST /auth/refresh is in flight, and a request that gets
\* 401 while isRefreshing is true starts no refresh: when it was not retried
\* before, its promise is appended to failedQueue.
C27_OneRefresh ==
    /\ refreshCalls <= 1
    /\ (apiLast.kind = "401" /\ apiLast.found[2]) =>
           /\ refreshCalls = apiLast.found[3]
           /\ requests[apiLast.n].stage \in {"queued", "rejected"}
           /\ requests[apiLast.n].stage = "queued" =>
                  failedQueue = Append(apiLast.found[1], apiLast.n)
           /\ requests[apiLast.n].stage = "rejected" => requests[apiLast.n].retry

\* C27 witness: a request is queued behind the refresh of another
C27_Witness ==
    /\ apiLast.kind = "401"
    /\ apiLast.found[2]
    /\ failedQueue = <<apiLast.n>>
    /\ refreshCalls = 1

\* the statement as given: every request that gets 401 while isRefreshing is
\* true is queued
C27_EveryOtherQueued ==
    (apiLast.kind = "401" /\ apiLast.found[2]) =>
        requests[apiLast.n].stage = "queued"

\* the queue an ended refresh found is settled, and the queue is in step with
\* isRefreshing
QueueInStep ==
    /\ apiLast.kind = "refreshed" =>
           \A i \in SeqToSet(apiLast.found[1]) :
               /\ requests[i].stage = "sent"
               /\ requests[i].auth = accessToken
               /\ requests[i].auth # 0
    /\ apiLast.kind = "refreshFailed" =>
           \A i \in SeqToSet(apiLast.found[1]) :
               /\ requests[i].stage = "rejected"
               /\ requests[i].error = "refresh"
    /\ ~isRefreshing => failedQueue = <<>>
    /\ InStage(requests, "queued") = SeqToSet(failedQueue)
    /\ failedQueue # <<>> => (isRefreshing /\ refreshCalls = 1)

\* request i waits in failedQueue
Queued(i) == i <= Len(requests) /\ requests[i].stage = "queued"

\* C28: the requests found queued when a refresh ends are all settled by that
\* step, sent again with the new access token after a success, rejected with
\* the refresh error after a failure; failedQueue is empty whenever
\* isRefreshing is false; and a queued request does not stay queued forever.
C28_QueueSettled ==
    /\ []QueueInStep
    /\ \A i \in 1..MaxRequests : Queued(i) ~> ~Queued(i)

\* C28 witness: a refresh ends with a request in the queue
C28_Witness ==
    /\ apiLast.kind \in {"refreshed", "refreshFailed"}
    /\ apiLast.found[1] # <<>>
    /\ failedQueue = <<>>

====
